---- MODULE Spec2Model ----
(***************************************************************************)
(* A model of the tecs entity/component store of thanatos:                 *)
(*   VecAny (src/tecs/src/vecany.rs), Column, Table, the impl_archetype!   *)
(*   add sequence, the Query combinators and World (src/tecs/src/lib.rs),  *)
(*   and the systems thanatos registers on it (src/thanatos/src).          *)
(***************************************************************************)
EXTENDS Integers, Sequences, FiniteSets, TLC

\* ------------------------------------------------------------------ bounds
MaxSpawns == 2          \* spawns performed in one behaviour
MaxViews == 2           \* query results / resource guards alive at once
MaxSystems == 2         \* systems registered on the world
MaxTicks == 5           \* calls of tick() by the application
MaxEvents == 1          \* calls of submit(), by the application or poll_events
MaxPushes == 3          \* elements pushed onto a VecAny used on its own

\* ------------------------------------------------------------- the domain
\* Component values (abstract: every component type has the same two values).
Values == {0, 1}

\* The archetypes declared with impl_archetype!: A{f1: i32, f2: f32} and
\* B{f1: i32}. Both have an i32 column; only A has an f32 column.
Archetypes == {"A", "B"}

ComponentTypes == {"i32", "f32"}

\* Types that implement the Archetype trait by hand, with an add that does
\* not follow columns(): M declares one i32 column and pushes an f32 into
\* it; N declares an i32 and an f32 column and pushes an i32 into each.
HandWritten == {"M", "N"}

AllArchetypes == Archetypes \cup HandWritten

\* Archetype::columns(): the fields' types as impl_archetype! generates it,
\* the declared list for a hand-written implementation.
ArchetypeColumns(a) ==
    IF a \in {"A", "N"} THEN <<"i32", "f32">> ELSE <<"i32">>

\* The values an entity of archetype a carries, one per field.
Entities(a) == [1..Len(ArchetypeColumns(a)) -> Values]

\* Option<T>
None == <<>>
Some(x) == <<x>>

\* --------------------------------------------------------------- the state
VARIABLES
    archetypes,   \* World.archetypes: archetype -> Table (registered ones only)
    tableOrder,   \* the iteration order of World.archetypes.values()
    resources,    \* World.resources: type -> RefCell (registered ones only)
    views,        \* the query results and resource guards that are alive
    adding,       \* the spawn in progress: its position in Archetype::add
    status,       \* "running", "panicked" (a borrow panic) or "crashed" (UB)
    last,         \* the last World operation called and what it returned
    spawned,      \* history: archetype -> the entities spawned, in order
    systems,      \* World.systems, in registration order
    stack,        \* the calls of tick, submit and poll_events in progress
    log,          \* history: the System::tick / System::event calls made by
                  \* the outermost tick or submit in progress (or just ended)
    ticks,        \* history: the calls of tick() made by the application
    submits       \* history: the events submitted, by the application or by
                  \* poll_events, in order

worldVars == <<archetypes, tableOrder, resources, views, adding, status, last, spawned>>

sysVars == <<systems, stack, log, ticks, submits>>

vars == <<archetypes, tableOrder, resources, views, adding, status, last, spawned,
          systems, stack, log, ticks, submits>>

\* ------------------------------------------------------------------ VecAny
\* mem holds the len elements the slice views expose; the allocation itself
\* covers only the first cap of them.
NewUninit(id) == [ptr |-> FALSE, len |-> 0, cap |-> 0, id |-> id, mem |-> <<>>]

\* A downcast that does not compare the identities.
DowncastRefUnchecked(vec, T) ==
    IF ~vec.ptr THEN None ELSE Some(SubSeq(vec.mem, 1, vec.len))

DowncastRef(vec, T) ==
    IF vec.id # T THEN None
    ELSE IF ~vec.ptr THEN None
    ELSE Some(SubSeq(vec.mem, 1, vec.len))

DowncastMut(vec, T) ==
    IF vec.id # T THEN None
    ELSE IF ~vec.ptr THEN None
    ELSE Some(SubSeq(vec.mem, 1, vec.len))

VecAnyLen(vec) == vec.len

\* The capacity after the growth step of push.
Grow(vec) == IF vec.len = vec.cap THEN [vec EXCEPT !.cap = vec.cap * 2] ELSE vec

\* A push that stores the element without counting it.
VecAnyPushKeepsLen(vec, T, item) ==
    LET v1 == IF ~vec.ptr THEN [vec EXCEPT !.ptr = TRUE] ELSE vec
    IN  IF v1.id # T THEN v1
        ELSE [Grow(v1) EXCEPT !.mem = Append(v1.mem, item)]

\* A push that stores the element whatever its type.
VecAnyPushUnchecked(vec, T, item) ==
    LET v1 == IF ~vec.ptr THEN [vec EXCEPT !.ptr = TRUE] ELSE vec
        v2 == Grow(v1)
    IN  [v2 EXCEPT !.len = v2.len + 1, !.mem = Append(v2.mem, item)]

\* push::<T>(item), when the write lands where the slice view reads it.
VecAnyPush(vec, T, item) ==
    LET v1 == IF ~vec.ptr THEN [vec EXCEPT !.ptr = TRUE] ELSE vec
    IN  IF v1.id # T THEN v1
        ELSE LET v2 == Grow(v1)
             IN  [v2 EXCEPT !.len = v2.len + 1, !.mem = Append(v2.mem, item)]

\* push::<T>(item) leaves defined behaviour: realloc is asked for zero bytes,
\* or the element is written past the end of the allocation.
PushIsUndefined(vec, T) ==
    /\ vec.id = T
    /\ \/ vec.len = vec.cap /\ Grow(vec).cap = 0
       \/ vec.len + 1 > Grow(vec).cap

\* ------------------------------------------------------------ Column, Table
ColumnNew(ty) == [ty |-> ty, borrow |-> 0, data |-> NewUninit(ty)]

TableNew(columns) ==
    [length |-> 0, columns |-> [i \in 1..Len(columns) |-> ColumnNew(columns[i])]]

TableLen(table) == table.length

\* A lookup that takes the table's first column whatever its type, as if
\* the table had one cell for all its columns.
FindColumnFirst(table, T) == IF Len(table.columns) = 0 THEN 0 ELSE 1

\* The position of the first column whose type is T, 0 when there is none.
FindColumn(table, T) ==
    LET hits == {i \in 1..Len(table.columns) : table.columns[i].ty = T}
    IN  IF hits = {} THEN 0 ELSE CHOOSE i \in hits : \A j \in hits : i <= j


\* A shared borrow that refuses every outstanding borrow.
ColumnConflictWithShared(table, T) ==
    /\ FindColumn(table, T) # 0
    /\ table.columns[FindColumn(table, T)].borrow # 0

\* A shared borrow that is never refused.
ColumnConflictNever(table, T) == FALSE

\* Table::column::<T>() panics: the column exists and is exclusively borrowed.
ColumnConflict(table, T) ==
    /\ FindColumn(table, T) # 0
    /\ table.columns[FindColumn(table, T)].borrow < 0

\* Table::column::<T>() returns a view (and keeps its shared borrow).
ColumnYields(table, T) ==
    /\ FindColumn(table, T) # 0
    /\ DowncastRef(table.columns[FindColumn(table, T)].data, T) # None

\* An exclusive borrow that refuses only another exclusive borrow.
ColumnMutConflictExclOnly(table, T) ==
    /\ FindColumn(table, T) # 0
    /\ table.columns[FindColumn(table, T)].borrow < 0

\* Table::column_mut::<T>() panics: the column exists and is borrowed.
ColumnMutConflict(table, T) ==
    /\ FindColumn(table, T) # 0
    /\ table.columns[FindColumn(table, T)].borrow # 0

ColumnMutYields(table, T) ==
    /\ FindColumn(table, T) # 0
    /\ DowncastMut(table.columns[FindColumn(table, T)].data, T) # None

\* The slice a live view of table's T column derefs to.
ColumnSlice(table, T) == DowncastRef(table.columns[FindColumn(table, T)].data, T)[1]

\* ------------------------------------------------------------------- views
\* An iterator that stops after the first column.
FlattenHeadOnly(slices) == IF slices = <<>> THEN <<>> ELSE Head(slices)

RECURSIVE Flatten(_)
Flatten(slices) ==
    IF slices = <<>> THEN <<>> ELSE Head(slices) \o Flatten(Tail(slices))

\* Columns::iter / ColumnsMut::iter: the view's columns, flattened in order.
ColumnsIter(view) ==
    Flatten([i \in 1..Len(view.tabs) |-> ColumnSlice(archetypes[view.tabs[i]], view.ty)])

NoAdd == [arch |-> "none"]

\* No call of the World is in progress.
Idle == status = "running" /\ adding = NoAdd /\ stack = <<>>

\* The application may call the World, and the call is not tick or submit.
Running == Idle /\ UNCHANGED sysVars

Panic(op, T) ==
    /\ status' = "panicked"
    /\ last' = [op |-> op, ty |-> T, res |-> "panic", val |-> <<>>]
    /\ UNCHANGED <<archetypes, tableOrder, resources, views, adding, spawned>>

\* Query for &T: every table's column::<T>(), in the map's iteration order.
QueryRef(T) ==
    /\ Running
    /\ Len(views) < MaxViews
    /\ IF \E a \in DOMAIN archetypes : ColumnConflict(archetypes[a], T)
       THEN Panic("query", T)
       ELSE LET tabs == SelectSeq(tableOrder, LAMBDA a : ColumnYields(archetypes[a], T))
                view == [kind |-> "shared", on |-> "column", ty |-> T, tabs |-> tabs]
            IN  /\ archetypes' =
                     [a \in DOMAIN archetypes |->
                        IF ColumnYields(archetypes[a], T)
                        THEN [archetypes[a] EXCEPT
                                !.columns[FindColumn(archetypes[a], T)].borrow = @ + 1]
                        ELSE archetypes[a]]
                /\ views' = Append(views, view)
                /\ last' = [op |-> "query", ty |-> T, res |-> "view",
                            val |-> ColumnsIter(view)]
                /\ UNCHANGED <<tableOrder, resources, adding, status, spawned>>

\* Query for &mut T: every table's column_mut::<T>(), in iteration order.
QueryMut(T) ==
    /\ Running
    /\ Len(views) < MaxViews
    /\ IF \E a \in DOMAIN archetypes : ColumnMutConflict(archetypes[a], T)
       THEN Panic("query_mut", T)
       ELSE LET tabs == SelectSeq(tableOrder, LAMBDA a : ColumnMutYields(archetypes[a], T))
                view == [kind |-> "excl", on |-> "column", ty |-> T, tabs |-> tabs]
            IN  /\ archetypes' =
                     [a \in DOMAIN archetypes |->
                        IF ColumnMutYields(archetypes[a], T)
                        THEN [archetypes[a] EXCEPT
                                !.columns[FindColumn(archetypes[a], T)].borrow = -1]
                        ELSE archetypes[a]]
                /\ views' = Append(views, view)
                /\ last' = [op |-> "query_mut", ty |-> T, res |-> "view",
                            val |-> ColumnsIter(view)]
                /\ UNCHANGED <<tableOrder, resources, adding, status, spawned>>

\* The tables, in iteration order, whose column::<T>() returns a view.
Matching(tables, T) == SelectSeq(tableOrder, LAMBDA a : ColumnYields(tables[a], T))

\* The tables after every column::<T>() that returns a view took its borrow.
SharedBorrowed(tables, T) ==
    [a \in DOMAIN tables |->
        IF ColumnYields(tables[a], T)
        THEN [tables[a] EXCEPT !.columns[FindColumn(tables[a], T)].borrow = @ + 1]
        ELSE tables[a]]

\* A tuple query that keeps only the tables holding both types.
TupleTablesJoined(tables, T1, T2) ==
    LET both == SelectSeq(tableOrder, LAMBDA a : /\ ColumnYields(tables[a], T1)
                                                 /\ ColumnYields(tables[a], T2))
    IN  <<both, both>>

\* Query for (A, B): `(A::query(tables), B::query(tables))`, the tables each
\* element's query collects.
TupleTables(tables, T1, T2) == <<Matching(tables, T1), Matching(tables, T2)>>

\* query::<(&T1, &T2)>(): two Columns values, the first one's borrows taken
\* before the second one's.
QueryPair(T1, T2) ==
    /\ Running
    /\ Len(views) + 2 <= MaxViews
    /\ IF \E a \in DOMAIN archetypes : \/ ColumnConflict(archetypes[a], T1)
                                        \/ ColumnConflict(archetypes[a], T2)
       THEN Panic("query_pair", T1)
       ELSE LET tabs == TupleTables(archetypes, T1, T2)
                first == [kind |-> "shared", on |-> "column", ty |-> T1, tabs |-> tabs[1]]
                second == [kind |-> "shared", on |-> "column", ty |-> T2, tabs |-> tabs[2]]
            IN  /\ archetypes' = SharedBorrowed(SharedBorrowed(archetypes, T1), T2)
                /\ views' = views \o <<first, second>>
                /\ last' = [op |-> "query_pair", ty |-> T1, ty2 |-> T2, res |-> "view",
                            val |-> <<ColumnsIter(first), ColumnsIter(second)>>]
                /\ UNCHANGED <<tableOrder, resources, adding, status, spawned>>

\* ------------------------------------------------------------------- spawn
\* The number of spawns begun so far.
RECURSIVE SumLen(_, _)
SumLen(f, S) ==
    IF S = {} THEN 0
    ELSE LET x == CHOOSE y \in S : TRUE IN f[x].length + SumLen(f, S \ {x})

Spawns == SumLen(archetypes, DOMAIN archetypes)

\* The orders in which a map holding the keys S may iterate.
Orders(S) ==
    {o \in [1..Cardinality(S) -> S] : \A i, j \in 1..Cardinality(S) : i # j => o[i] # o[j]}

\* World::register::<T>()
Register(tables, a) == (a :> TableNew(ArchetypeColumns(a))) @@ tables

\* The types Archetype::add pushes, field by field (impl_archetype! pushes
\* the very types columns() lists; M and N push what they please).
AddTypes(a) ==
    IF a = "M" THEN <<"f32">>
    ELSE IF a = "N" THEN <<"i32", "i32">>
    ELSE ArchetypeColumns(a)

\* An add that does not count the row.
AddCountForgotten(table) == table

\* Archetype::add, first line: `table.length += 1`.
AddCount(table) == [table EXCEPT !.length = @ + 1]

\* A spawn that registers the archetype's table every time.
SpawnStartRegistersAgain(a, entity) ==
    /\ LET tables == Register(archetypes, a)
       IN  /\ archetypes' = [tables EXCEPT ![a] = AddCount(@)]
           /\ tableOrder' \in IF a \in DOMAIN archetypes THEN {tableOrder}
                              ELSE Orders(DOMAIN tables)
    /\ adding' = [arch |-> a, entity |-> entity, next |-> 1]
    /\ last' = [op |-> "spawn", ty |-> a, res |-> "adding", val |-> <<>>]
    /\ UNCHANGED <<views, status, spawned>>

\* World::spawn up to and including the first two lines of Archetype::add:
\* the table is registered on first use, then `table.length += 1`.
SpawnStart(a, entity) ==
    /\ LET tables == IF a \in DOMAIN archetypes THEN archetypes
                     ELSE Register(archetypes, a)
       IN  /\ archetypes' = [tables EXCEPT ![a] = AddCount(@)]
           /\ tableOrder' \in IF a \in DOMAIN archetypes THEN {tableOrder}
                              ELSE Orders(DOMAIN tables)
    /\ adding' = [arch |-> a, entity |-> entity, next |-> 1]
    /\ last' = [op |-> "spawn", ty |-> a, res |-> "adding", val |-> <<>>]
    /\ UNCHANGED <<views, status, spawned>>

\* The application calls World::spawn (it holds no view: spawn takes &mut self).
SpawnBegin(a, entity) ==
    /\ Running
    /\ views = <<>>
    /\ Spawns < MaxSpawns
    /\ SpawnStart(a, entity)
    /\ UNCHANGED resources

\* The element cells of every column buffer: <<archetype, column, row>>.
Cells(tables) ==
    UNION {UNION {{<<a, k, r>> : r \in 1..Len(tables[a].columns[k].data.mem)} :
                  k \in 1..Len(tables[a].columns)} :
           a \in DOMAIN tables}

Poke(tables, c, v) == [tables EXCEPT ![c[1]].columns[c[2]].data.mem[c[3]] = v]

\* What a push that leaves defined behaviour may leave behind: the write
\* landed (the buffers read back as pushed), or one element cell of some
\* buffer reads back as something else.
UndefinedHeaps(pushed) ==
    {pushed} \cup {Poke(pushed, c, v) : c \in Cells(pushed), v \in Values}

\* One `columns.next().unwrap().push::<$type>(self.$field)` of Archetype::add.
AddPush ==
    /\ UNCHANGED sysVars
    /\ status = "running"
    /\ adding # NoAdd
    /\ adding.next <= Len(AddTypes(adding.arch))
    /\ LET a == adding.arch
           k == adding.next
           T == AddTypes(a)[k]
           col == archetypes[a].columns[k]
           pushed == [archetypes EXCEPT
                        ![a].columns[k].data = VecAnyPush(col.data, T, adding.entity[k])]
       IN  IF col.borrow # 0
           THEN /\ status' = "panicked"
                /\ UNCHANGED <<archetypes, adding>>
           ELSE \/ /\ archetypes' \in IF PushIsUndefined(col.data, T)
                                      THEN UndefinedHeaps(pushed) ELSE {pushed}
                   /\ adding' = [adding EXCEPT !.next = k + 1]
                   /\ status' = status
                \/ /\ PushIsUndefined(col.data, T)
                   /\ status' = "crashed"
                   /\ UNCHANGED <<archetypes, adding>>
    /\ UNCHANGED <<tableOrder, resources, views, last, spawned>>

\* A spawn that returns the row count instead of the last row's index.
SpawnReturnsCount ==
    /\ UNCHANGED sysVars
    /\ status = "running"
    /\ adding # NoAdd
    /\ adding.next > Len(AddTypes(adding.arch))
    /\ last' = [op |-> "spawn", ty |-> adding.arch, res |-> "id",
                val |-> <<TableLen(archetypes[adding.arch])>>]
    /\ spawned' = [spawned EXCEPT ![adding.arch] = Append(@, adding.entity)]
    /\ adding' = NoAdd
    /\ UNCHANGED <<archetypes, tableOrder, resources, views, status>>

\* The end of World::spawn: EntityId(store.len() as u32 - 1).
SpawnReturn ==
    /\ UNCHANGED sysVars
    /\ status = "running"
    /\ adding # NoAdd
    /\ adding.next > Len(AddTypes(adding.arch))
    /\ last' = [op |-> "spawn", ty |-> adding.arch, res |-> "id",
                val |-> <<TableLen(archetypes[adding.arch]) - 1>>]
    /\ spawned' = [spawned EXCEPT ![adding.arch] = Append(@, adding.entity)]
    /\ adding' = NoAdd
    /\ UNCHANGED <<archetypes, tableOrder, resources, views, status>>

\* --------------------------------------------------------------- resources
ResourceTypes == {"u32", "State"}

\* The values the application stores as a resource of type T.
ResourceValues(T) == IF T = "u32" THEN {0, 1} ELSE {"Stopped", "Running"}

\* An insert that keeps the resource already stored.
InsertKeepsOld(map, T, resource) ==
    map @@ (T :> [val |-> resource, borrow |-> 0])

\* An insert that starts from an empty map.
InsertDropsOthers(map, T, resource) ==
    (T :> [val |-> resource, borrow |-> 0])

\* World::with_resource::<T>(resource): insert or replace, in a new RefCell.
Insert(map, T, resource) ==
    (T :> [val |-> resource, borrow |-> 0]) @@ map

\* HashMap::remove: the map without the key.
Without(map, T) == [t \in (DOMAIN map) \ {T} |-> map[t]]

WithResource(T, resource) ==
    /\ Running
    /\ views = <<>>
    /\ resources' = Insert(resources, T, resource)
    /\ last' = [op |-> "with_resource", ty |-> T, res |-> "ok", val |-> <<resource>>]
    /\ UNCHANGED <<archetypes, tableOrder, views, adding, status, spawned>>

\* World::with_resource::<T>(resource) on a world that holds a T already:
\* HashMap::insert replaces the value (and returns the old one, which
\* with_resource drops).
ReplaceResource(T, resource) ==
    /\ Running
    /\ views = <<>>
    /\ T \in DOMAIN resources
    /\ resources' = Insert(resources, T, resource)
    /\ last' = [op |-> "with_resource", ty |-> T, res |-> "replaced",
                val |-> <<resource>>, old |-> Some(resources[T].val)]
    /\ UNCHANGED <<archetypes, tableOrder, views, adding, status, spawned>>

\* What RefCell::borrow gives for the resource of type T, if there is one.
GetResult(map, T) ==
    IF T \notin DOMAIN map THEN "absent"
    ELSE IF map[T].borrow < 0 THEN "panic" ELSE "guard"

\* A get_mut that unwraps the lookup.
GetMutResultAbsentPanics(map, T) ==
    IF T \notin DOMAIN map THEN "panic"
    ELSE IF map[T].borrow # 0 THEN "panic" ELSE "guard"

\* What RefCell::borrow_mut gives for the resource of type T, if there is one.
GetMutResult(map, T) ==
    IF T \notin DOMAIN map THEN "absent"
    ELSE IF map[T].borrow # 0 THEN "panic" ELSE "guard"

\* World::get::<T>()
Get(T) ==
    /\ Running
    /\ Len(views) < MaxViews
    /\ IF GetResult(resources, T) = "absent"
       THEN /\ last' = [op |-> "get", ty |-> T, res |-> "absent", val |-> None]
            /\ UNCHANGED <<archetypes, tableOrder, resources, views, adding, status, spawned>>
       ELSE IF GetResult(resources, T) = "panic"
       THEN Panic("get", T)
       ELSE /\ resources' = [resources EXCEPT ![T].borrow = @ + 1]
            /\ views' = Append(views, [kind |-> "shared", on |-> "resource",
                                       ty |-> T, tabs |-> <<>>])
            /\ last' = [op |-> "get", ty |-> T, res |-> "guard",
                        val |-> Some(resources[T].val)]
            /\ UNCHANGED <<archetypes, tableOrder, adding, status, spawned>>

\* World::get_mut::<T>()
GetMut(T) ==
    /\ Running
    /\ Len(views) < MaxViews
    /\ IF GetMutResult(resources, T) = "absent"
       THEN /\ last' = [op |-> "get_mut", ty |-> T, res |-> "absent", val |-> None]
            /\ UNCHANGED <<archetypes, tableOrder, resources, views, adding, status, spawned>>
       ELSE IF GetMutResult(resources, T) = "panic"
       THEN Panic("get_mut", T)
       ELSE /\ resources' = [resources EXCEPT ![T].borrow = -1]
            /\ views' = Append(views, [kind |-> "excl", on |-> "resource",
                                       ty |-> T, tabs |-> <<>>])
            /\ last' = [op |-> "get_mut", ty |-> T, res |-> "guard",
                        val |-> Some(resources[T].val)]
            /\ UNCHANGED <<archetypes, tableOrder, adding, status, spawned>>

\* World::remove::<T>(): the value leaves the map and is returned by value.
Remove(T) ==
    /\ Running
    /\ views = <<>>
    /\ IF T \notin DOMAIN resources
       THEN /\ last' = [op |-> "remove", ty |-> T, res |-> "absent", val |-> None]
            /\ UNCHANGED resources
       ELSE /\ resources' = Without(resources, T)
            /\ last' = [op |-> "remove", ty |-> T, res |-> "value",
                        val |-> Some(resources[T].val)]
    /\ UNCHANGED <<archetypes, tableOrder, views, adding, status, spawned>>

\* ------------------------------------------------------------ guards' ends
\* A RefMut whose drop leaves the cell borrowed.
ReleaseLeaks(kind, borrow) == IF kind = "shared" THEN borrow - 1 ELSE borrow

\* The borrow flag after a Ref (shared) or RefMut (excl) is dropped.
Release(kind, borrow) == IF kind = "shared" THEN borrow - 1 ELSE 0

RemoveAt(seq, i) == SubSeq(seq, 1, i - 1) \o SubSeq(seq, i + 1, Len(seq))

InSeq(x, seq) == \E i \in 1..Len(seq) : seq[i] = x

\* The i-th live view is dropped: each Ref / RefMut it holds releases.
DropView(i) ==
    /\ Running
    /\ i \in 1..Len(views)
    /\ LET view == views[i]
       IN  IF view.on = "resource"
           THEN /\ resources' = [resources EXCEPT
                                   ![view.ty].borrow = Release(view.kind, @)]
                /\ UNCHANGED archetypes
           ELSE /\ archetypes' =
                     [a \in DOMAIN archetypes |->
                        IF InSeq(a, view.tabs)
                        THEN [archetypes[a] EXCEPT
                                !.columns[FindColumn(archetypes[a], view.ty)].borrow =
                                    Release(view.kind, @)]
                        ELSE archetypes[a]]
                /\ UNCHANGED resources
    /\ views' = RemoveAt(views, i)
    /\ last' = [op |-> "drop", ty |-> views[i].ty, res |-> "ok", val |-> <<>>]
    /\ UNCHANGED <<tableOrder, adding, status, spawned>>

\* A write through a RefMut returned by get_mut.
WriteResource(i, T, v) ==
    /\ Running
    /\ i \in 1..Len(views)
    /\ views[i].on = "resource" /\ views[i].kind = "excl"
    /\ views[i].ty = T
    /\ resources' = [resources EXCEPT ![views[i].ty].val = v]
    /\ last' = [op |-> "write", ty |-> views[i].ty, res |-> "ok", val |-> <<v>>]
    /\ UNCHANGED <<archetypes, tableOrder, views, adding, status, spawned>>

\* The slices of the view's first n columns hold this many items.
RECURSIVE ItemsBefore(_, _)
ItemsBefore(view, n) ==
    IF n = 0 THEN 0
    ELSE Len(ColumnSlice(archetypes[view.tabs[n]], view.ty)) + ItemsBefore(view, n - 1)

\* Element r of the slice downcast_mut hands out lies outside the buffer.
WriteIsUndefined(vec, r) == r > vec.cap

\* A write through ColumnsMut::iter_mut: `*item = v` for the item that is
\* row r of the view's t-th column. `last` records the item's position in
\* the iteration and what the view yielded before the write.
WriteColumn(i, t, r, v) ==
    /\ Running
    /\ i \in 1..Len(views)
    /\ views[i].on = "column" /\ views[i].kind = "excl"
    /\ t \in 1..Len(views[i].tabs)
    /\ LET a == views[i].tabs[t]
           k == FindColumn(archetypes[a], views[i].ty)
           vec == archetypes[a].columns[k].data
           written == [archetypes EXCEPT ![a].columns[k].data.mem[r] = v]
       IN  /\ r \in 1..VecAnyLen(vec)
           /\ \/ /\ archetypes' \in IF WriteIsUndefined(vec, r)
                                     THEN UndefinedHeaps(written) ELSE {written}
                 /\ status' = status
              \/ /\ WriteIsUndefined(vec, r)
                 /\ status' = "crashed"
                 /\ UNCHANGED archetypes
    /\ last' = [op |-> "write_item", ty |-> views[i].ty, res |-> "ok", val |-> <<v>>,
                pos |-> ItemsBefore(views[i], t - 1) + r, old |-> ColumnsIter(views[i])]
    /\ UNCHANGED <<tableOrder, resources, views, adding, spawned>>

\* ------------------------------------------------------- a VecAny by itself
\* The column of a table built with Table::new(&[id]) and used directly,
\* through Table::columns_mut and Column::push: a VecAny::new_uninit(id) that
\* receives pushes of any type and is read with downcast_ref / downcast_mut.
Lone == "V"

LoneTable(id) == (Lone :> TableNew(<<id>>))

Vec == archetypes[Lone].columns[1].data

\* What downcast_ref / downcast_mut returned, as `last` records it.
Downcast(op, T, result) ==
    [op |-> op, ty |-> T, res |-> IF result = None THEN "none" ELSE "some",
     val |-> result]

\* column.push::<T>(item) on the lone column.
VecPush(T, item) ==
    /\ status = "running"
    /\ T = Vec.id => VecAnyLen(Vec) < MaxPushes
    /\ LET pushed == [archetypes EXCEPT
                        ![Lone].columns[1].data = VecAnyPush(Vec, T, item)]
       IN  \/ /\ archetypes' \in IF PushIsUndefined(Vec, T)
                                  THEN UndefinedHeaps(pushed) ELSE {pushed}
              /\ status' = status
              /\ last' = [op |-> "push", ty |-> T, res |-> "ok", val |-> <<item>>]
           \/ /\ PushIsUndefined(Vec, T)
              /\ status' = "crashed"
              /\ last' = [op |-> "push", ty |-> T, res |-> "crash", val |-> <<item>>]
              /\ UNCHANGED archetypes
    /\ UNCHANGED <<tableOrder, resources, views, adding, spawned, sysVars>>

\* column.data.downcast_ref::<T>()
VecDowncastRef(T) ==
    /\ status = "running"
    /\ last' = Downcast("downcast_ref", T, DowncastRef(Vec, T))
    /\ UNCHANGED <<archetypes, tableOrder, resources, views, adding, status, spawned,
                   sysVars>>

\* column.data.downcast_mut::<T>()
VecDowncastMut(T) ==
    /\ status = "running"
    /\ last' = Downcast("downcast_mut", T, DowncastMut(Vec, T))
    /\ UNCHANGED <<archetypes, tableOrder, resources, views, adding, status, spawned,
                   sysVars>>

\* ----------------------------------------------------------------- systems
\* event::Event (the two variants whose handling reads no payload).
Events == {"Stop", "Resized"}

\* What a system does when called: nothing ("noop"), or a closure's body.
\*   increment    |world| *world.get_mut::<u32>().unwrap() += 1
\*   spawn_b      |world| { world.spawn(B { f1: 0 }); }
\*   poll_events  window::poll_events
\*   handle_stop  the Stop handler of thanatos
\*   clear_mouse_delta  window::clear_mouse_delta
TickBodies == {"increment", "spawn_b", "poll_events"}
EventBodies == {"handle_stop"}

\* A Handler whose closure also runs on tick.
HandlerAlsoTicks(f) == [via |-> "with_handler", tick |-> f, event |-> f]

\* Handler<T> as a System: event runs the closure, tick is empty.
HandlerSystem(f) == [via |-> "with_handler", tick |-> "noop", event |-> f]

\* A Ticker whose closure runs on events instead of ticks.
TickerOnEvent(f) == [via |-> "with_ticker", tick |-> "noop", event |-> f]

\* Ticker<T> as a System: tick runs the closure, event is empty.
TickerSystem(f) == [via |-> "with_ticker", tick |-> f, event |-> "noop"]

\* A type of the application that implements System itself.
UserSystem == [via |-> "with_system", tick |-> "increment", event |-> "handle_stop"]

\* The builder calls come before the first tick or submit.
Building == Idle /\ views = <<>> /\ ticks = 0 /\ submits = <<>>

\* The resources the application of the systems attaches while building.
BuildResources == {"u32", "State", "Window"}

BuildValues(T) ==
    IF T = "u32" THEN {0}
    ELSE IF T = "State" THEN {"Running"} ELSE {"window"}

BuildResource(T, resource) == Building /\ WithResource(T, resource)

WithSystem ==
    /\ Building
    /\ Len(systems) < MaxSystems
    /\ systems' = Append(systems, UserSystem)
    /\ UNCHANGED <<worldVars, stack, log, ticks, submits>>

WithHandler(f) ==
    /\ Building
    /\ Len(systems) < MaxSystems
    /\ systems' = Append(systems, HandlerSystem(f))
    /\ UNCHANGED <<worldVars, stack, log, ticks, submits>>

WithTicker(f) ==
    /\ Building
    /\ Len(systems) < MaxSystems
    /\ systems' = Append(systems, TickerSystem(f))
    /\ UNCHANGED <<worldVars, stack, log, ticks, submits>>

\* A call of tick or submit: `self.systems.clone().into_iter()`.
Frame(kind, ev) ==
    [kind |-> kind, systems |-> systems, i |-> 1, ev |-> ev, events |-> <<>>]

\* A tick that fails when there is no system to call.
TickNeedsSystem ==
    /\ Idle /\ views = <<>>
    /\ ticks < MaxTicks
    /\ stack' = <<Frame("tick", "none")>>
    /\ log' = <<>>
    /\ ticks' = ticks + 1
    /\ status' = IF systems = <<>> THEN "panicked" ELSE status
    /\ last' = [op |-> "tick", ty |-> "none", res |-> "ok", val |-> <<>>]
    /\ UNCHANGED <<archetypes, tableOrder, resources, views, adding, spawned,
                   systems, submits>>

\* The application calls World::tick.
Tick ==
    /\ Idle /\ views = <<>>
    /\ ticks < MaxTicks
    /\ stack' = <<Frame("tick", "none")>>
    /\ log' = <<>>
    /\ ticks' = ticks + 1
    /\ last' = [op |-> "tick", ty |-> "none", res |-> "ok", val |-> <<>>]
    /\ UNCHANGED <<archetypes, tableOrder, resources, views, adding, status, spawned,
                   systems, submits>>

\* The application calls World::submit.
Submit(event) ==
    /\ Idle /\ views = <<>>
    /\ Len(submits) < MaxEvents
    /\ stack' = <<Frame("submit", event)>>
    /\ log' = <<>>
    /\ submits' = Append(submits, event)
    /\ last' = [op |-> "submit", ty |-> event, res |-> "ok", val |-> <<>>]
    /\ UNCHANGED <<archetypes, tableOrder, resources, views, adding, status, spawned,
                   systems, ticks>>

Top == Head(stack)

\* A submit that calls `system.tick(self)` as tick does.
BehaviourAlwaysTick(frame) == frame.systems[frame.i].tick

\* What the loop's call `system.tick(self)` / `system.event(self, &event)` runs.
Behaviour(frame) ==
    IF frame.kind = "tick" THEN frame.systems[frame.i].tick
    ELSE frame.systems[frame.i].event

\* A loop that skips the system after the one it called.
AdvanceSkipping(frame) == [frame EXCEPT !.i = @ + 2]

\* The loop moves on to the next system of its clone of the list.
Advance(frame) == [frame EXCEPT !.i = @ + 1]

\* What a system can observe of the world when it is called.
Snapshot ==
    [u32 |-> IF "u32" \in DOMAIN resources THEN Some(resources["u32"].val) ELSE None,
     state |-> IF "State" \in DOMAIN resources THEN Some(resources["State"].val) ELSE None,
     rows |-> Spawns]

\* The loop of the innermost tick or submit calls its next system, whose
\* behaviour there is `body`.
Calling(body) ==
    /\ status = "running" /\ adding = NoAdd /\ stack # <<>>
    /\ Top.kind \in {"tick", "submit"}
    /\ Top.i <= Len(Top.systems)
    /\ Behaviour(Top) = body
    /\ log' = Append(log, [call |-> Top.kind, pos |-> Top.i, depth |-> Len(stack),
                           ev |-> Top.ev, body |-> body, seen |-> Snapshot])
    /\ UNCHANGED <<systems, ticks, submits>>

\* The body returned: the loop continues.
Returned == stack' = <<Advance(Top)>> \o Tail(stack)

\* `.unwrap()` on None, or a refused borrow, inside a body.
BodyPanics ==
    /\ status' = "panicked"
    /\ UNCHANGED <<archetypes, tableOrder, resources, views, adding, last, spawned, stack>>

\* A guard taken with get_mut, written through and dropped: the new cell.
WrittenThroughGuard(map, T, v) ==
    [map EXCEPT ![T] = [val |-> v, borrow |-> Release("excl", -1)]]

\* The empty method of an adapter: Handler::tick, Ticker::event.
CallNoop ==
    /\ Calling("noop")
    /\ Returned
    /\ UNCHANGED worldVars

\* *world.get_mut::<u32>().unwrap() += 1
CallIncrement ==
    /\ Calling("increment")
    /\ IF GetMutResult(resources, "u32") = "guard"
       THEN /\ resources' = WrittenThroughGuard(resources, "u32", resources["u32"].val + 1)
            /\ Returned
            /\ UNCHANGED <<archetypes, tableOrder, views, adding, status, last, spawned>>
       ELSE BodyPanics

\* window::clear_mouse_delta: the Mouse guard is taken with get_mut, the
\* delta is zeroed through it and the guard is dropped at the body's end.
CallClearMouseDelta ==
    /\ Calling("clear_mouse_delta")
    /\ IF GetMutResult(resources, "Mouse") = "guard"
       THEN /\ resources' = WrittenThroughGuard(resources, "Mouse", 0)
            /\ Returned
            /\ UNCHANGED <<archetypes, tableOrder, views, adding, status, last, spawned>>
       ELSE BodyPanics

\* A stop handler that does not look at the event.
CallHandleStopOnAny ==
    /\ Calling("handle_stop")
    /\ IF GetMutResult(resources, "State") = "guard"
       THEN /\ resources' = WrittenThroughGuard(resources, "State", "Stopped")
            /\ Returned
            /\ UNCHANGED <<archetypes, tableOrder, views, adding, status, last, spawned>>
       ELSE BodyPanics

\* if let Event::Stop = event { *world.get_mut::<State>().unwrap() = State::Stopped }
CallHandleStop ==
    /\ Calling("handle_stop")
    /\ IF Top.ev # "Stop"
       THEN Returned /\ UNCHANGED worldVars
       ELSE IF GetMutResult(resources, "State") = "guard"
       THEN /\ resources' = WrittenThroughGuard(resources, "State", "Stopped")
            /\ Returned
            /\ UNCHANGED <<archetypes, tableOrder, views, adding, status, last, spawned>>
       ELSE BodyPanics

\* world.spawn(B { f1: 0 }), up to the first push; AddPush and SpawnReturn
\* finish it before the loop continues.
CallSpawn ==
    /\ Calling("spawn_b")
    /\ Spawns < MaxSpawns
    /\ SpawnStart("B", <<0>>)
    /\ Returned
    /\ UNCHANGED resources

\* The sequences of at most n events.
EventSeqs(n) == UNION {[1..k -> Events] : k \in 0..n}

\* window::poll_events up to its last line: the Window guard is taken and
\* dropped, the window's events are collected.
CallPollEvents ==
    /\ Calling("poll_events")
    /\ IF GetMutResult(resources, "Window") = "guard"
       THEN /\ \E events \in EventSeqs(MaxEvents - Len(submits)) :
                 stack' = <<[kind |-> "poll", systems |-> <<>>, i |-> 1,
                             ev |-> "none", events |-> events]>>
                          \o <<Advance(Top)>> \o Tail(stack)
            /\ UNCHANGED worldVars
       ELSE BodyPanics

\* A poll_events that queues the event: its submit runs once the call in
\* progress has returned.
PollSubmitDeferred ==
    /\ status = "running" /\ adding = NoAdd /\ stack # <<>>
    /\ Top.kind = "poll"
    /\ Top.events # <<>>
    /\ stack' = <<[Top EXCEPT !.events = Tail(@)]>> \o Tail(stack)
                \o <<Frame("submit", Head(Top.events))>>
    /\ submits' = Append(submits, Head(Top.events))
    /\ last' = [op |-> "submit", ty |-> Head(Top.events), res |-> "ok", val |-> <<>>]
    /\ UNCHANGED <<archetypes, tableOrder, resources, views, adding, status, spawned,
                   systems, log, ticks>>

\* poll_events, last line: `world.submit(event)` for the next event.
PollSubmit ==
    /\ status = "running" /\ adding = NoAdd /\ stack # <<>>
    /\ Top.kind = "poll"
    /\ Top.events # <<>>
    /\ stack' = <<Frame("submit", Head(Top.events))>>
                \o <<[Top EXCEPT !.events = Tail(@)]>> \o Tail(stack)
    /\ submits' = Append(submits, Head(Top.events))
    /\ last' = [op |-> "submit", ty |-> Head(Top.events), res |-> "ok", val |-> <<>>]
    /\ UNCHANGED <<archetypes, tableOrder, resources, views, adding, status, spawned,
                   systems, log, ticks>>

\* poll_events returns.
PollReturn ==
    /\ status = "running" /\ adding = NoAdd /\ stack # <<>>
    /\ Top.kind = "poll"
    /\ Top.events = <<>>
    /\ stack' = Tail(stack)
    /\ UNCHANGED <<worldVars, systems, log, ticks, submits>>

\* tick or submit returns: its loop is through.
Return ==
    /\ status = "running" /\ adding = NoAdd /\ stack # <<>>
    /\ Top.kind \in {"tick", "submit"}
    /\ Top.i > Len(Top.systems)
    /\ stack' = Tail(stack)
    /\ UNCHANGED <<worldVars, systems, log, ticks, submits>>

\* ---------------------------------------------------------------- World::run
\* thanatos' own World (src/thanatos/src/world.rs): World::new() attaches
\* State::Stopped and the handle_stop Handler, the application attaches its
\* resources and Tickers, and run() drives the loop.
BeforeRun == Building /\ last.op \in {"new", "with_resource"}

\* The resources and Tickers the application attaches before run().
RunResources == {"State", "Window", "Mouse"}

RunValues(T) ==
    IF T = "State" THEN {"Running"} ELSE IF T = "Mouse" THEN {1} ELSE {"window"}

RunTickers == {"poll_events", "clear_mouse_delta"}

RunResource(T, resource) == BeforeRun /\ WithResource(T, resource)

\* with_ticker on the world World::new() returned, which holds the stop
\* Handler already.
RunTicker(f) ==
    /\ BeforeRun
    /\ Len(systems) - 1 < MaxSystems
    /\ systems' = Append(systems, TickerSystem(f))
    /\ UNCHANGED <<worldVars, stack, log, ticks, submits>>

\* A run() that leaves State as World::new() attached it.
RunWithoutReset ==
    /\ BeforeRun
    /\ last' = [op |-> "run", ty |-> "State", res |-> "ok", val |-> <<>>]
    /\ UNCHANGED <<archetypes, tableOrder, resources, views, adding, status, spawned,
                   sysVars>>

\* World::run, first line: *self.get_mut::<State>().unwrap() = State::Running
Run ==
    /\ BeforeRun
    /\ IF GetMutResult(resources, "State") = "guard"
       THEN /\ resources' = WrittenThroughGuard(resources, "State", "Running")
            /\ last' = [op |-> "run", ty |-> "State", res |-> "ok", val |-> <<>>]
            /\ UNCHANGED <<archetypes, tableOrder, views, adding, status, spawned>>
       ELSE Panic("run", "State")
    /\ UNCHANGED sysVars

\* The loop is at its head: run() has just begun it, or tick() has returned.
AtLoopHead == Idle /\ views = <<>> /\ last.op \in {"run", "tick", "submit"}

\* if let State::Stopped = *self.get_mut().unwrap() { break; }
LoopCheck ==
    /\ AtLoopHead
    /\ IF GetMutResult(resources, "State") = "guard"
       THEN /\ last' = [op |-> "loop_check", ty |-> "State",
                        res |-> IF resources["State"].val = "Stopped"
                                THEN "break" ELSE "continue",
                        val |-> Some(resources["State"].val)]
            /\ UNCHANGED <<archetypes, tableOrder, resources, views, adding, status,
                           spawned>>
       ELSE Panic("loop_check", "State")
    /\ UNCHANGED sysVars

\* self.tick(), reached when the check did not break.
LoopTick ==
    /\ last.op = "loop_check" /\ last.res = "continue"
    /\ Tick

\* ------------------------------------------------------- the specification
\* World::new(): no table, no resource, no system.
Init ==
    /\ archetypes = <<>>
    /\ tableOrder = <<>>
    /\ resources = <<>>
    /\ views = <<>>
    /\ adding = NoAdd
    /\ status = "running"
    /\ last = [op |-> "new", ty |-> "none", res |-> "ok", val |-> <<>>]
    /\ spawned = [a \in AllArchetypes |-> <<>>]
    /\ systems = <<>>
    /\ stack = <<>>
    /\ log = <<>>
    /\ ticks = 0
    /\ submits = <<>>

\* The state World::new() of thanatos returns.
InitRun ==
    /\ archetypes = <<>>
    /\ tableOrder = <<>>
    /\ resources = Insert(<<>>, "State", "Stopped")
    /\ views = <<>>
    /\ adding = NoAdd
    /\ status = "running"
    /\ last = [op |-> "new", ty |-> "none", res |-> "ok", val |-> <<>>]
    /\ spawned = [a \in AllArchetypes |-> <<>>]
    /\ systems = <<HandlerSystem("handle_stop")>>
    /\ stack = <<>>
    /\ log = <<>>
    /\ ticks = 0
    /\ submits = <<>>

\* The application builds its world and calls run(); the window delivers
\* events to poll_events.
NextRun ==
    \/ \E T \in RunResources : \E v \in RunValues(T) : RunResource(T, v)
    \/ \E f \in RunTickers : RunTicker(f)
    \/ Run
    \/ LoopCheck
    \/ LoopTick
    \/ CallNoop
    \/ CallHandleStop
    \/ CallClearMouseDelta
    \/ CallPollEvents
    \/ PollSubmit
    \/ PollReturn
    \/ Return

\* The application calls the entity store: spawn, query, drop.
NextStore ==
    \/ \E a \in Archetypes : \E entity \in Entities(a) : SpawnBegin(a, entity)
    \/ AddPush
    \/ SpawnReturn
    \/ \E T \in ComponentTypes : QueryRef(T)
    \/ \E T \in ComponentTypes : QueryMut(T)
    \/ \E i \in 1..MaxViews : DropView(i)

\* The entity store, with writes through the exclusive views.
NextWrite ==
    \/ NextStore
    \/ \E i \in 1..MaxViews : \E t \in 1..Cardinality(Archetypes) :
         \E r \in 1..MaxSpawns : \E v \in Values : WriteColumn(i, t, r, v)

\* The application calls the resource registry.
NextResources ==
    \/ \E T \in ResourceTypes : \E v \in ResourceValues(T) : WithResource(T, v)
    \/ \E T \in ResourceTypes : \E v \in ResourceValues(T) : ReplaceResource(T, v)
    \/ \E T \in ResourceTypes : Get(T)
    \/ \E T \in ResourceTypes : GetMut(T)
    \/ \E T \in ResourceTypes : Remove(T)
    \/ \E i \in 1..MaxViews : DropView(i)
    \/ \E i \in 1..MaxViews : \E T \in ResourceTypes : \E v \in ResourceValues(T) :
         WriteResource(i, T, v)

\* The application only spawns and reads: no write through a view.
NextSpawn ==
    \/ \E a \in Archetypes : \E entity \in Entities(a) : SpawnBegin(a, entity)
    \/ AddPush
    \/ SpawnReturn
    \/ \E T \in ComponentTypes : QueryRef(T)
    \/ \E i \in 1..MaxViews : DropView(i)

\* The application spawns entities of the hand-written archetypes and reads.
NextSchema ==
    \/ \E a \in HandWritten : \E entity \in Entities(a) : SpawnBegin(a, entity)
    \/ AddPush
    \/ SpawnReturn
    \/ \E T \in ComponentTypes : QueryRef(T)
    \/ \E i \in 1..MaxViews : DropView(i)

\* The application spawns and reads with single and tuple queries.
NextTuple ==
    \/ NextSpawn
    \/ \E T1, T2 \in ComponentTypes : T1 # T2 /\ QueryPair(T1, T2)

\* The application takes and drops borrows of columns and of resources (the
\* entities and resources it stores all carry the same value).
NextBorrow ==
    \/ \E a \in Archetypes : SpawnBegin(a, [k \in 1..Len(ArchetypeColumns(a)) |-> 0])
    \/ AddPush
    \/ SpawnReturn
    \/ \E T \in ComponentTypes : QueryRef(T)
    \/ \E T \in ComponentTypes : QueryMut(T)
    \/ \E T \in ResourceTypes : WithResource(T, CHOOSE v \in ResourceValues(T) : TRUE)
    \/ \E T \in ResourceTypes : Get(T)
    \/ \E T \in ResourceTypes : GetMut(T)
    \/ \E i \in 1..MaxViews : DropView(i)

\* Mouse.delta, abstracted to zero / not zero.
MouseDeltas == {0, 1}

\* The application takes and drops borrows of a column and of the Mouse,
\* and ticks a world whose systems are clear_mouse_delta Tickers.
NextRelease ==
    \/ SpawnBegin("B", <<0>>)
    \/ AddPush
    \/ SpawnReturn
    \/ QueryRef("i32")
    \/ QueryMut("i32")
    \/ \E delta \in MouseDeltas : WithResource("Mouse", delta)
    \/ Get("Mouse")
    \/ GetMut("Mouse")
    \/ \E i \in 1..MaxViews : DropView(i)
    \/ WithTicker("clear_mouse_delta")
    \/ Tick
    \/ CallClearMouseDelta
    \/ Return

\* The application builds a world with systems, then calls tick and submit.
NextSystems ==
    \/ \E T \in BuildResources : \E v \in BuildValues(T) : BuildResource(T, v)
    \/ WithSystem
    \/ \E f \in EventBodies : WithHandler(f)
    \/ \E f \in TickBodies : WithTicker(f)
    \/ Tick
    \/ \E event \in Events : Submit(event)
    \/ CallNoop
    \/ CallIncrement
    \/ CallHandleStop
    \/ CallSpawn
    \/ CallPollEvents
    \/ PollSubmit
    \/ PollReturn
    \/ AddPush
    \/ SpawnReturn
    \/ Return

\* A table of one column, freshly built for either element type.
InitVecAny ==
    /\ archetypes \in {LoneTable(id) : id \in ComponentTypes}
    /\ tableOrder = <<Lone>>
    /\ resources = <<>>
    /\ views = <<>>
    /\ adding = NoAdd
    /\ status = "running"
    /\ last = [op |-> "new_uninit", ty |-> "none", res |-> "ok", val |-> <<>>]
    /\ spawned = [a \in AllArchetypes |-> <<>>]
    /\ systems = <<>>
    /\ stack = <<>>
    /\ log = <<>>
    /\ ticks = 0
    /\ submits = <<>>

\* Pushes of either type onto the lone column, and reads of it as either type.
NextVecAny ==
    \/ \E T \in ComponentTypes : \E item \in Values : VecPush(T, item)
    \/ \E T \in ComponentTypes : VecDowncastRef(T)
    \/ \E T \in ComponentTypes : VecDowncastMut(T)

Spec == Init /\ [][NextStore]_vars

SpecWrite == Init /\ [][NextWrite]_vars

SpecSystems == Init /\ [][NextSystems]_vars

SpecBorrow == Init /\ [][NextBorrow]_vars

SpecSpawn == Init /\ [][NextSpawn]_vars

SpecTuple == Init /\ [][NextTuple]_vars

SpecResources == Init /\ [][NextResources]_vars

SpecVecAny == InitVecAny /\ [][NextVecAny]_vars

SpecSchema == Init /\ [][NextSchema]_vars

SpecRelease == Init /\ [][NextRelease]_vars

SpecRun == InitRun /\ [][NextRun]_vars

\* ================================================================== claims
\* The C values of the entities spawned so far with archetype a, in order.
SpawnedColumn(a, T) ==
    [i \in 1..Len(spawned[a]) |-> spawned[a][i][FindColumn(archetypes[a], T)]]

\* C1: when only one archetype has been spawned, query::<&C>() for a
\* component C of it yields one entry per spawned entity, the i-th entry
\* being the C value of the i-th spawned entity.
C1_QueryYieldsSpawnOrder ==
    \A a \in Archetypes : \A T \in ComponentTypes :
        ( /\ DOMAIN archetypes = {a}
          /\ FindColumn(archetypes[a], T) # 0
          /\ last.op = "query" /\ last.ty = T /\ last.res = "view" )
        => last.val = SpawnedColumn(a, T)

\* C2: after every completed spawn, each column of each table holds as many
\* elements as the table has rows.
C2_ColumnsMatchLength ==
    adding = NoAdd =>
        \A a \in DOMAIN archetypes : \A k \in 1..Len(archetypes[a].columns) :
            VecAnyLen(archetypes[a].columns[k].data) = TableLen(archetypes[a])

C2_Witness ==
    /\ adding = NoAdd
    /\ "A" \in DOMAIN archetypes
    /\ TableLen(archetypes["A"]) = 2
    /\ last.op = "spawn" /\ last.res = "id"

\* C3 as stated: at no step of the add sequence does a table's row count
\* exceed the length of one of its columns.
C3_CountNeverAhead ==
    \A a \in DOMAIN archetypes : \A k \in 1..Len(archetypes[a].columns) :
        TableLen(archetypes[a]) <= VecAnyLen(archetypes[a].columns[k].data)

\* C3 as amended: add increments the row count first; while it runs, the
\* columns not yet appended to are exactly one short of the row count and
\* the columns already appended to equal it; every other table is level.
C3_CountLeadsByOne ==
    \A a \in DOMAIN archetypes : \A k \in 1..Len(archetypes[a].columns) :
        VecAnyLen(archetypes[a].columns[k].data) =
            IF adding # NoAdd /\ adding.arch = a /\ k >= adding.next
            THEN TableLen(archetypes[a]) - 1
            ELSE TableLen(archetypes[a])

C3_Witness ==
    /\ adding # NoAdd
    /\ adding.arch = "A"
    /\ adding.next = 2
    /\ TableLen(archetypes["A"]) = 2

\* The live views that hold a borrow of the storage a request for T on `on`
\* ("column" or "resource") would borrow.
HoldersOf(on, T) ==
    {i \in 1..Len(views) :
        /\ views[i].on = on /\ views[i].ty = T
        /\ on = "column" => views[i].tabs # <<>>}

SharedRequest(op) == op \in {"query", "get"}
ExclRequest(op) == op \in {"query_mut", "get_mut"}
StorageOf(op) == IF op \in {"query", "query_mut"} THEN "column" ELSE "resource"

\* C4: a shared request made while only shared borrows of the same storage
\* are outstanding succeeds, and live shared queries over one type yield the
\* same sequence, which is the one the latest of them returned.
C4_SharedBorrowsCoexist ==
    /\ ( /\ SharedRequest(last.op)
         /\ \A i \in HoldersOf(StorageOf(last.op), last.ty) : views[i].kind = "shared" )
       => last.res # "panic"
    /\ \A i, j \in 1..Len(views) :
         ( /\ views[i].on = "column" /\ views[j].on = "column"
           /\ views[i].kind = "shared" /\ views[j].kind = "shared"
           /\ views[i].ty = views[j].ty )
         => /\ ColumnsIter(views[i]) = ColumnsIter(views[j])
            /\ (last.op = "query" /\ last.ty = views[i].ty /\ last.res = "view")
                 => last.val = ColumnsIter(views[i])

\* Two shared queries over i32 are alive, each over both tables.
C4_Witness ==
    /\ Len(views) = 2
    /\ \A i \in 1..2 : views[i] = [kind |-> "shared", on |-> "column", ty |-> "i32",
                                   tabs |-> tableOrder]
    /\ Len(tableOrder) = 2
    /\ last.op = "query" /\ last.res = "view" /\ Len(last.val) = 2

\* C5: an exclusive request made while a borrow of the same storage is
\* outstanding panics at once: it returns no view and changes neither the
\* outstanding borrows nor the stored data.
C5_ExclusiveFailsFastStep ==
    ( /\ ExclRequest(last'.op)
      /\ HoldersOf(StorageOf(last'.op), last'.ty) # {} )
    => /\ last'.res = "panic"
       /\ status' = "panicked"
       /\ UNCHANGED <<views, archetypes, resources, tableOrder>>

\* C5: every step satisfies the fail-fast condition: an exclusive request on
\* borrowed storage reports failure (None or a panic) and grants nothing.
C5_ExclusiveFailsFast == [][C5_ExclusiveFailsFastStep]_vars

\* An exclusive query over i32 has just panicked against a live shared one.
C5_Witness ==
    /\ status = "panicked"
    /\ last.op = "query_mut" /\ last.ty = "i32" /\ last.res = "panic"
    /\ \E i \in HoldersOf("column", "i32") : views[i].kind = "shared"

\* C6, step by step: with_resource stores the value and a get that follows
\* it returns that value; get and get_mut return the stored value; remove
\* returns the stored value and takes the resource out of the world; get,
\* get_mut and remove of a type that is not stored return absence; and the
\* stored value changes only by with_resource or a write through a guard.
C6_RoundTripStep ==
    \A T \in ResourceTypes :
        /\ (last'.op = "with_resource" /\ last'.ty = T)
             => T \in DOMAIN resources' /\ Some(resources'[T].val) = last'.val
        /\ (last.op = "with_resource" /\ last.ty = T
              /\ last'.op \in {"get", "get_mut"} /\ last'.ty = T)
             => last'.res = "guard" /\ last'.val = last.val
        /\ (last'.op \in {"get", "get_mut"} /\ last'.ty = T /\ last'.res # "panic"
              /\ T \in DOMAIN resources)
             => last'.res = "guard" /\ last'.val = Some(resources[T].val)
        /\ (last'.op = "remove" /\ last'.ty = T /\ T \in DOMAIN resources)
             => /\ last'.res = "value" /\ last'.val = Some(resources[T].val)
                /\ T \notin DOMAIN resources'
        /\ (last'.op \in {"get", "get_mut", "remove"} /\ last'.ty = T
              /\ T \notin DOMAIN resources)
             => /\ last'.res = "absent" /\ last'.val = None
                /\ T \notin DOMAIN resources'
        /\ (T \in DOMAIN resources' /\ T \notin DOMAIN resources)
             => last'.op = "with_resource"
        /\ (T \in DOMAIN resources' /\ T \in DOMAIN resources
              /\ resources'[T].val # resources[T].val)
             => last'.op \in {"with_resource", "write"}

\* C6: every step satisfies the round trip: a value attached with
\* with_resource is what get returns, a get of an absent type returns None,
\* and remove deletes the entry so that a later get returns None.
C6_RoundTrip == [][C6_RoundTripStep]_vars

\* remove has just returned, by value, a resource that with_resource stored.
C6_Witness ==
    /\ last = [op |-> "remove", ty |-> "State", res |-> "value", val |-> Some("Stopped")]
    /\ "State" \notin DOMAIN resources

\* What a system called next observes, given what the system of log entry e
\* observed and what its body does to the world.
After(e) ==
    IF e.body = "increment" THEN [e.seen EXCEPT !.u32 = Some(@[1] + 1)]
    ELSE IF e.body = "handle_stop" /\ e.ev = "Stop"
         THEN [e.seen EXCEPT !.state = Some("Stopped")]
    ELSE IF e.body = "spawn_b" THEN [e.seen EXCEPT !.rows = @ + 1]
    ELSE e.seen

\* The calls made by the loop of the outermost tick.
TickCalls == SelectSeq(log, LAMBDA e : e.call = "tick")

\* C7: a call of tick() calls System::tick of every registered system once,
\* in registration order, and each system called observes the world as the
\* systems called before it in that tick left it.
C7_TickInOrder ==
    /\ \A j \in 1..Len(TickCalls) :
         /\ j <= Len(systems)
         /\ TickCalls[j].pos = j
         /\ TickCalls[j].depth = 1
         /\ TickCalls[j].body = systems[j].tick
    /\ (Idle /\ log # <<>> /\ log[1].call = "tick") => Len(TickCalls) = Len(systems)
    /\ (log # <<>> /\ log[1].call = "tick") =>
         /\ \A j \in 1..(Len(log) - 1) : log[j + 1].seen = After(log[j])
         /\ Idle => Snapshot = After(log[Len(log)])

\* A tick of <<spawn_b, increment>> has ended: increment saw the row.
C7_Witness ==
    /\ Idle
    /\ systems = <<TickerSystem("spawn_b"), TickerSystem("increment")>>
    /\ ticks = 2
    /\ Len(log) = 2
    /\ log[2].seen.rows = 2 /\ log[2].seen.u32 = Some(1)
    /\ Snapshot.u32 = Some(2)

\* The first calls of the submit loops recorded in the log.
SubmitFirsts == SelectSeq(log, LAMBDA e : e.call = "submit" /\ e.pos = 1)

\* 1 when a submit has begun and has not called its first system yet.
SubmitPending ==
    IF /\ status = "running"
       /\ stack # <<>> /\ Top.kind = "submit" /\ Top.i = 1 /\ Top.systems # <<>>
    THEN 1 ELSE 0

\* C8: a call of submit(event) calls System::event of every registered
\* system once, in registration order, each time with the submitted event.
C8_SubmitInOrder ==
    /\ \A j \in 1..Len(log) :
         log[j].call = "submit" =>
            /\ log[j].pos <= Len(systems)
            /\ log[j].body = systems[log[j].pos].event
            /\ log[j].ev \in Events
            /\ log[j].pos > 1 =>
                 /\ j > 1
                 /\ log[j - 1].call = "submit"
                 /\ log[j - 1].depth = log[j].depth
                 /\ log[j - 1].pos = log[j].pos - 1
                 /\ log[j - 1].ev = log[j].ev
            /\ log[j].pos < Len(systems) =>
                 \/ /\ j < Len(log)
                    /\ log[j + 1].call = "submit" /\ log[j + 1].pos = log[j].pos + 1
                 \/ /\ j = Len(log)
                    /\ \/ status # "running"
                       \/ /\ stack # <<>> /\ Top.kind = "submit"
                          /\ Top.i = log[j].pos + 1 /\ Top.ev = log[j].ev
    /\ Len(SubmitFirsts) + SubmitPending <= Len(submits)
    /\ \A j \in 1..Len(SubmitFirsts) :
         SubmitFirsts[j].ev =
            submits[Len(submits) - SubmitPending - Len(SubmitFirsts) + j]
    /\ \A k \in 1..Len(stack) :
         stack[k].kind = "submit" => stack[k].ev = submits[Len(submits)]

\* submit(Stop) by the application has ended on a world of two systems.
C8_Witness ==
    /\ Idle
    /\ submits = <<"Stop">>
    /\ Len(systems) = 2
    /\ Len(log) = 2
    /\ \A j \in 1..2 : log[j].call = "submit" /\ log[j].pos = j /\ log[j].ev = "Stop"
    /\ log[2].body = "handle_stop"

\* The call of the application that is in progress: the stack's bottom.
Outermost == stack[Len(stack)]

OnlyVia(via) == \A i \in 1..Len(systems) : systems[i].via = via

\* C9, the state after a step: a Handler's closure is never run by a call
\* of System::tick and a Ticker's closure never by a call of System::event.
C9_AdaptersIgnore ==
    \A j \in 1..Len(log) :
        /\ (systems[log[j].pos].via = "with_handler" /\ log[j].call = "tick")
             => log[j].body = "noop"
        /\ (systems[log[j].pos].via = "with_ticker" /\ log[j].call = "submit")
             => log[j].body = "noop"

\* C9, a step: while tick() runs on a world of Handlers only, or submit()
\* on a world of Tickers only, tables and resources do not change.
C9_OtherCallStep ==
    ( /\ stack # <<>>
      /\ \/ Outermost.kind = "tick" /\ OnlyVia("with_handler")
         \/ Outermost.kind = "submit" /\ OnlyVia("with_ticker") )
    => UNCHANGED <<archetypes, tableOrder, resources>>

\* C9: a Handler acts only on submit(), a Ticker only on tick(); the other
\* call runs no closure and leaves the world as it was.
C9_HandlersAndTickers == [][C9_AdaptersIgnore' /\ C9_OtherCallStep]_vars

\* submit(Stop) has ended on a world whose only system is the increment
\* Ticker: the counter is still 0.
C9_Witness ==
    /\ Idle
    /\ systems = <<TickerSystem("increment")>>
    /\ submits = <<"Stop">>
    /\ Len(log) = 1 /\ log[1].call = "submit" /\ log[1].body = "noop"
    /\ "u32" \in DOMAIN resources /\ resources["u32"].val = 0

\* The systems that run the increment closure, on tick or on submit.
Incrementers ==
    {i \in 1..Len(systems) : "increment" \in {systems[i].tick, systems[i].event}}

\* C10: with one Ticker that increments the u32 resource (attached as 0),
\* the resource reads n after n calls of tick(), and the Ticker's get_mut
\* never fails.
C10_CounterCountsTicks ==
    ( /\ "u32" \in DOMAIN resources
      /\ Cardinality(Incrementers) = 1
      /\ \A i \in Incrementers : systems[i].via = "with_ticker" ) =>
        /\ Idle => resources["u32"].val = ticks
        /\ ~(status = "panicked" /\ log # <<>> /\ log[Len(log)].body = "increment")

C10_Witness ==
    /\ Idle
    /\ systems = <<TickerSystem("increment")>>
    /\ ticks = 5
    /\ resources["u32"].val = 5

\* The log entry of the first call made by the loop of the innermost submit.
SubmitEntry ==
    LET hits == {j \in 1..Len(log) :
                    log[j].call = "submit" /\ log[j].pos = 1 /\ log[j].depth = Len(stack)}
    IN  log[CHOOSE j \in hits : \A k \in hits : k <= j]

\* The loop of the innermost submit has called every system and is about to
\* return, on a world that holds a State and the stop Handler.
StopHandled ==
    /\ status = "running" /\ adding = NoAdd /\ stack # <<>>
    /\ Top.kind = "submit" /\ Top.i > Len(Top.systems)
    /\ "State" \in DOMAIN resources
    /\ \E i \in 1..Len(systems) : systems[i] = HandlerSystem("handle_stop")

\* C11: with the stop Handler registered, State reads Stopped after
\* submit(Stop), and after submit(e) for another event e it has the value it
\* had before the submit; a get of it succeeds.
C11_StopSetsStopped ==
    StopHandled =>
        /\ GetResult(resources, "State") = "guard"
        /\ IF Top.ev = "Stop"
           THEN resources["State"].val = "Stopped"
           ELSE Some(resources["State"].val) = SubmitEntry.seen.state

\* submit(Stop) has run the stop Handler on a State that read Running.
C11_Witness ==
    /\ StopHandled
    /\ Top.ev = "Stop"
    /\ SubmitEntry.seen.state = Some("Running")
    /\ resources["State"].val = "Stopped"

\* C12: when A, with its components i32 and f32, is the only archetype
\* spawned, query::<(&i32, &f32)>() returns two sequences with one entry per
\* spawned entity, the i-th entries being the two values of the i-th entity.
C12_PairsAligned ==
    ( /\ DOMAIN archetypes = {"A"}
      /\ last.op = "query_pair" /\ last.res = "view"
      /\ last.ty = "i32" /\ last.ty2 = "f32" )
    => /\ Len(last.val[1]) = Len(spawned["A"])
       /\ Len(last.val[2]) = Len(spawned["A"])
       /\ \A i \in 1..Len(spawned["A"]) :
            /\ last.val[1][i] = spawned["A"][i][1]
            /\ last.val[2][i] = spawned["A"][i][2]

\* What query::<&T>() returns in the current state.
SingleResult(T) ==
    ColumnsIter([kind |-> "shared", on |-> "column", ty |-> T,
                 tabs |-> SelectSeq(tableOrder, LAMBDA a : ColumnYields(archetypes[a], T))])

\* C13: the first part of query::<(&T1, &T2)>() is what query::<&T1>()
\* returns on the same world and the second part what query::<&T2>()
\* returns: each part holds the entries of every table that has its type.
C13_PairIsTwoQueries ==
    (last.op = "query_pair" /\ last.res = "view")
    => /\ last.val[1] = SingleResult(last.ty)
       /\ last.val[2] = SingleResult(last.ty2)
       /\ Len(views) >= 2
       /\ ColumnsIter(views[Len(views) - 1]) = SingleResult(last.ty)
       /\ ColumnsIter(views[Len(views)]) = SingleResult(last.ty2)

\* A and B have one row each: the i32 part has two entries, the f32 part one.
C13_Witness ==
    /\ last.op = "query_pair" /\ last.res = "view"
    /\ last.ty = "i32" /\ last.ty2 = "f32"
    /\ DOMAIN archetypes = {"A", "B"}
    /\ Len(last.val[1]) = 2
    /\ Len(last.val[2]) = 1

\* The registered tables whose schema, as the archetype declares it, has T.
TablesWith(T) ==
    {a \in DOMAIN archetypes :
        \E k \in 1..Len(ArchetypeColumns(a)) : ArchetypeColumns(a)[k] = T}

\* The number of rows of the first n tables of the order o.
RECURSIVE RowsBefore(_, _)
RowsBefore(o, n) ==
    IF n = 0 THEN 0 ELSE TableLen(archetypes[o[n]]) + RowsBefore(o, n - 1)

\* seq is the T columns of the tables of o, whole and one after the other,
\* each in row order.
IsConcatenation(seq, o, T) ==
    /\ Len(seq) = RowsBefore(o, Len(o))
    /\ \A n \in 1..Len(o) : \A r \in 1..TableLen(archetypes[o[n]]) :
         seq[RowsBefore(o, n - 1) + r] =
            archetypes[o[n]].columns[FindColumn(archetypes[o[n]], T)].data.mem[r]

\* C14: query::<&T>() and query::<&mut T>() yield, for some order of the
\* tables whose schema has T, the whole T columns of those tables one after
\* the other, each in row order: as many entries as those tables have rows,
\* nothing from the other tables, and no entry at all, without failing, when
\* no table has T.
C14_QueryConcatenates ==
    last.op \in {"query", "query_mut"} =>
        /\ last.res = "view" =>
              /\ \E o \in Orders(TablesWith(last.ty)) : IsConcatenation(last.val, o, last.ty)
              /\ Len(last.val) = SumLen(archetypes, TablesWith(last.ty))
        /\ TablesWith(last.ty) = {} => last.res = "view" /\ last.val = <<>>

\* An exclusive query over i32 returned the rows of both tables.
C14_Witness ==
    /\ last.op = "query_mut" /\ last.ty = "i32" /\ last.res = "view"
    /\ TablesWith("i32") = {"A", "B"}
    /\ TablesWith("f32") = {"A"}
    /\ Len(last.val) = 2

\* C15, a step: with_resource::<T>(v) leaves T stored once, with the value
\* v and unborrowed, whether or not a T was stored before, and leaves the
\* resources of every other type as they were; the get or remove of T that
\* follows it returns v.
C15_InsertOrReplaceStep ==
    \A T \in ResourceTypes :
        /\ (last'.op = "with_resource" /\ last'.ty = T)
             => /\ DOMAIN resources' = DOMAIN resources \cup {T}
                /\ resources'[T] = [val |-> last'.val[1], borrow |-> 0]
                /\ \A U \in DOMAIN resources \ {T} : resources'[U] = resources[U]
        /\ (last.op = "with_resource" /\ last.ty = T
              /\ last'.op \in {"get", "remove"} /\ last'.ty = T)
             => /\ last'.res \in {"guard", "value"}
                /\ last'.val = last.val

\* C15: with_resource is insert-or-replace keyed by type: after
\* with_resource(v1) and with_resource(v2) of one type the world holds one
\* resource of that type, get reads v2 and remove returns v2, and the
\* resources of the other types are unchanged.
C15_InsertOrReplace == [][C15_InsertOrReplaceStep]_vars

\* with_resource(Stopped) has replaced a State that read Running, on a world
\* that also holds a u32.
C15_Witness ==
    /\ last.op = "with_resource" /\ last.ty = "State" /\ last.res = "replaced"
    /\ last.old = Some("Running") /\ last.val = <<"Stopped">>
    /\ DOMAIN resources = {"u32", "State"}
    /\ resources["State"].val = "Stopped"

\* C16, a step: get, get_mut and remove of a type that is not stored return
\* None without a panic, take no borrow and change no resource, no table and
\* no system.
C16_AbsenceStep ==
    ( /\ last'.op \in {"get", "get_mut", "remove"}
      /\ last'.ty \notin DOMAIN resources )
    => /\ last'.res = "absent" /\ last'.val = None
       /\ status' = "running"
       /\ UNCHANGED <<resources, views, archetypes, tableOrder, systems>>

\* C16: absence is a normal result: with no resource of type T registered,
\* get::<T>(), get_mut::<T>() and remove::<T>() return absence, do not abort,
\* borrow nothing and change nothing.
C16_AbsenceIsNormal == [][C16_AbsenceStep]_vars

\* get_mut::<State>() returned None while a guard of the u32 is alive.
C16_Witness ==
    /\ last = [op |-> "get_mut", ty |-> "State", res |-> "absent", val |-> None]
    /\ status = "running"
    /\ "State" \notin DOMAIN resources
    /\ Len(views) = 1 /\ views[1].ty = "u32"

\* The number of spawns of archetype a begun so far.
SpawnsOf(a) ==
    Len(spawned[a]) + (IF adding # NoAdd /\ adding.arch = a THEN 1 ELSE 0)

\* C17: the world holds one table for each archetype spawned so far and no
\* other; the table has the archetype's declared columns, and its row count
\* is the number of spawns of that archetype: no later spawn replaced or
\* reset it.
C17_OneTablePerArchetype ==
    /\ DOMAIN archetypes = {a \in Archetypes : SpawnsOf(a) > 0}
    /\ Len(tableOrder) = Cardinality(DOMAIN archetypes)
    /\ \A a \in DOMAIN archetypes :
         /\ \E n \in 1..Len(tableOrder) : tableOrder[n] = a
         /\ TableLen(archetypes[a]) = SpawnsOf(a)
         /\ Len(archetypes[a].columns) = Len(ArchetypeColumns(a))
         /\ \A k \in 1..Len(ArchetypeColumns(a)) :
              /\ archetypes[a].columns[k].ty = ArchetypeColumns(a)[k]
              /\ archetypes[a].columns[k].data.id = ArchetypeColumns(a)[k]

\* A has been spawned twice, B never: one table, of two rows.
C17_Witness ==
    /\ adding = NoAdd /\ status = "running"
    /\ Len(spawned["A"]) = 2 /\ spawned["B"] = <<>>
    /\ DOMAIN archetypes = {"A"}
    /\ TableLen(archetypes["A"]) = 2

\* C18: the spawn of archetype T that follows k completed spawns of T
\* returns EntityId k, which is T's row count before that spawn; so the ids
\* returned for T so far are 0 .. (completed spawns of T) - 1, pairwise
\* distinct, and each of them is below T's row count.
C18_SpawnReturnsRowIndex ==
    /\ (last.op = "spawn" /\ last.res = "id")
         => /\ last.val = <<Len(spawned[last.ty]) - 1>>
            /\ last.val[1] = TableLen(archetypes[last.ty]) - 1
    /\ (adding # NoAdd)
         => TableLen(archetypes[adding.arch]) - 1 = Len(spawned[adding.arch])
    /\ \A a \in DOMAIN archetypes : \A id \in 0..(Len(spawned[a]) - 1) :
         id < TableLen(archetypes[a])

\* The second spawn of A has returned EntityId 1.
C18_Witness ==
    /\ last = [op |-> "spawn", ty |-> "A", res |-> "id", val |-> <<1>>]
    /\ Len(spawned["A"]) = 2

\* The rows a table holds in the state before the step read the same after it.
RowsKept(a) ==
    /\ a \in DOMAIN archetypes'
    /\ \A k \in 1..Len(archetypes[a].columns) :
         \A r \in 1..VecAnyLen(archetypes[a].columns[k].data) :
            /\ r <= VecAnyLen(archetypes'[a].columns[k].data)
            /\ archetypes'[a].columns[k].data.mem[r] = archetypes[a].columns[k].data.mem[r]

\* The row count of archetype a's table, 0 while it has none.
RowCount(tables, a) == IF a \in DOMAIN tables THEN TableLen(tables[a]) ELSE 0

\* C19, a step: a step of a spawn of T (its start, one push of add, its
\* return) keeps every row the tables held, every table of another
\* archetype, every resource and the system list; the spawn raises T's row
\* count by one, at its start; and no step lowers a row count or removes a
\* table.
C19_SpawnOnlyAppendsStep ==
    /\ \A a \in DOMAIN archetypes :
         a \in DOMAIN archetypes' /\ TableLen(archetypes'[a]) >= TableLen(archetypes[a])
    /\ (adding # NoAdd \/ adding' # NoAdd) =>
         LET T == IF adding' # NoAdd THEN adding'.arch ELSE adding.arch
         IN  /\ \A a \in DOMAIN archetypes : RowsKept(a)
             /\ \A a \in DOMAIN archetypes \ {T} : archetypes'[a] = archetypes[a]
             /\ DOMAIN archetypes' = DOMAIN archetypes \cup {T}
             /\ RowCount(archetypes', T) =
                    RowCount(archetypes, T) + (IF adding = NoAdd THEN 1 ELSE 0)
             /\ UNCHANGED <<resources, systems>>

\* C19: tables are append-only and spawn has no other effect: a spawn of T
\* adds one row to T's table and changes no existing row, no other table, no
\* resource and no system; no operation lowers a row count or removes a table.
C19_SpawnOnlyAppends == [][C19_SpawnOnlyAppendsStep]_vars

\* C20, a step: on a world without systems, a step of tick() or submit(e)
\* changes no table, no resource and not the system list, calls nothing and
\* does not panic, and the call it leaves in progress is through its loop
\* and can return.
C20_NoSystemsStep ==
    (systems = <<>> /\ (stack # <<>> \/ stack' # <<>>))
    => /\ UNCHANGED <<archetypes, tableOrder, resources, systems, views>>
       /\ status' = "running"
       /\ log' = <<>>
       /\ stack' # <<>> =>
            /\ Len(stack') = 1
            /\ stack'[1].kind \in {"tick", "submit"}
            /\ stack'[1].i > Len(stack'[1].systems)
            /\ adding' = NoAdd

\* C20: tick() and submit(e) on a world with zero registered systems do not
\* fail and change nothing.
C20_NoSystemsNoOp == [][C20_NoSystemsStep]_vars

\* tick() and submit(Stop) have both returned on a world that has resources
\* and no system.
C20_Witness ==
    /\ Idle
    /\ systems = <<>>
    /\ ticks = 1 /\ submits = <<"Stop">>
    /\ DOMAIN resources = {"u32", "State"}
    /\ resources["State"].val = "Running" /\ resources["u32"].val = 0

\* C21 as stated: downcast_ref::<T>() and downcast_mut::<T>() return a slice
\* view, of len() elements, exactly when the array's recorded identity is T,
\* and absence otherwise; a new_uninit(id of T) array on which nothing was
\* pushed returns an empty view for T.
C21_ViewIffIdentity ==
    last.op \in {"downcast_ref", "downcast_mut"} =>
        /\ last.res = "some" <=> Vec.id = last.ty
        /\ last.res = "some" => Len(last.val[1]) = VecAnyLen(Vec)

\* C21 as amended: the view is returned exactly when the recorded identity
\* is T and the array holds a buffer pointer, which the first call of push
\* sets; its length is len() and its entries are the stored elements; a
\* new_uninit array on which push was never called returns absence for
\* every T, its own included.
C21_ViewIffIdentityAndAllocated ==
    /\ last.op \in {"downcast_ref", "downcast_mut"} =>
          /\ last.res = "some" <=> (Vec.id = last.ty /\ Vec.ptr)
          /\ last.res = "some" =>
                /\ Len(last.val[1]) = VecAnyLen(Vec)
                /\ last.val[1] = Vec.mem
          /\ last.res = "none" => last.val = None
    /\ ~Vec.ptr => VecAnyLen(Vec) = 0

\* downcast_ref of the recorded type returned absence on a fresh array.
C21_Witness ==
    /\ ~Vec.ptr /\ Vec.id = "i32"
    /\ last = [op |-> "downcast_ref", ty |-> "i32", res |-> "none", val |-> None]

\* C22, a step: a push whose type differs from the array's recorded identity
\* does not fail and leaves len(), the stored elements and the result of
\* downcast_ref and downcast_mut for every type as they were.
C22_MismatchedPushStep ==
    (last'.op = "push" /\ last'.ty # Vec.id)
    => /\ status' = "running" /\ last'.res = "ok"
       /\ VecAnyLen(Vec') = VecAnyLen(Vec)
       /\ Vec'.mem = Vec.mem
       /\ \A U \in ComponentTypes :
            /\ DowncastRef(Vec', U) = DowncastRef(Vec, U)
            /\ DowncastMut(Vec', U) = DowncastMut(Vec, U)

\* C22: a push of a value whose type is not the array's recorded identity
\* is a silent no-op, the first push on a new_uninit array included: the
\* array is observably the same before and after it.
C22_MismatchedPushIsNoOp == [][C22_MismatchedPushStep]_vars

\* C24: after any sequence of pushes on a new_uninit array the element
\* count never exceeds the capacity the doubling has reached, and the
\* capacity is at least 1 once an element is stored.
C24_LenWithinCap ==
    /\ VecAnyLen(Vec) <= Vec.cap
    /\ VecAnyLen(Vec) >= 1 => Vec.cap >= 1

\* The columns of archetype a into which its add pushes a type that is not
\* the column's declared one.
Mismatched(a) ==
    {k \in 1..Len(ArchetypeColumns(a)) : AddTypes(a)[k] # ArchetypeColumns(a)[k]}

\* C23: when an archetype's add pushes into a column a value of another
\* type than the column's, the push is absorbed: it fails nothing (a spawn
\* stops only in a push whose type matches), the column keeps its length,
\* the row count is incremented all the same and spawn returns the EntityId
\* of the new row, so once it has returned the row count exceeds the
\* length of the mismatched column.
C23_SchemaViolationAbsorbed ==
    /\ status # "running" =>
          /\ adding # NoAdd
          /\ adding.next \notin Mismatched(adding.arch)
    /\ \A a \in DOMAIN archetypes :
          /\ TableLen(archetypes[a]) = SpawnsOf(a)
          /\ \A k \in Mismatched(a) :
                /\ VecAnyLen(archetypes[a].columns[k].data) = 0
                /\ archetypes[a].columns[k].data.mem = <<>>
                /\ TableLen(archetypes[a]) > VecAnyLen(archetypes[a].columns[k].data)
    /\ (last.op = "spawn" /\ last.res = "id") =>
          /\ status = "running"
          /\ TableLen(archetypes[last.ty]) = Len(spawned[last.ty])
          /\ last.val = <<TableLen(archetypes[last.ty]) - 1>>

\* Two spawns of M have returned: two rows, and nothing in M's column.
C23_Witness ==
    /\ last = [op |-> "spawn", ty |-> "M", res |-> "id", val |-> <<1>>]
    /\ status = "running" /\ adding = NoAdd
    /\ TableLen(archetypes["M"]) = 2
    /\ VecAnyLen(archetypes["M"].columns[1].data) = 0

\* The live views of one kind that hold a borrow of column T of table a.
ColumnHolders(a, T, kind) ==
    {i \in 1..Len(views) :
        /\ views[i].on = "column" /\ views[i].ty = T /\ views[i].kind = kind
        /\ InSeq(a, views[i].tabs)}

\* The live guards of one kind on the resource of type T.
ResourceHolders(T, kind) ==
    {i \in 1..Len(views) :
        views[i].on = "resource" /\ views[i].ty = T /\ views[i].kind = kind}

\* One exclusive borrow and no shared one, or no exclusive borrow; and the
\* RefCell's flag says the same.
Exclusion(excl, shared, borrow) ==
    /\ Cardinality(excl) <= 1
    /\ excl # {} => shared = {}
    /\ borrow = IF excl # {} THEN -1 ELSE Cardinality(shared)

\* C25: in every state, each column of each table and each resource has
\* either no exclusive borrow outstanding, or one exclusive borrow and no
\* shared one; and a shared query or get that returned a view left no
\* exclusive borrow of what it borrowed alive.
C25_BorrowExclusion ==
    /\ \A a \in DOMAIN archetypes : \A k \in 1..Len(archetypes[a].columns) :
          Exclusion(ColumnHolders(a, archetypes[a].columns[k].ty, "excl"),
                    ColumnHolders(a, archetypes[a].columns[k].ty, "shared"),
                    archetypes[a].columns[k].borrow)
    /\ \A T \in DOMAIN resources :
          Exclusion(ResourceHolders(T, "excl"), ResourceHolders(T, "shared"),
                    resources[T].borrow)
    /\ (SharedRequest(last.op) /\ last.res \in {"view", "guard"}) =>
          \A i \in HoldersOf(StorageOf(last.op), last.ty) : views[i].kind = "shared"
    /\ (SharedRequest(last.op) /\ last.res = "panic") =>
          \E i \in HoldersOf(StorageOf(last.op), last.ty) : views[i].kind = "excl"

\* A shared query over i32 has just been refused: an exclusive query over
\* i32 holds the columns of both tables.
C25_Witness ==
    /\ status = "panicked"
    /\ last.op = "query" /\ last.ty = "i32" /\ last.res = "panic"
    /\ Len(views) = 1
    /\ views[1] = [kind |-> "excl", on |-> "column", ty |-> "i32", tabs |-> tableOrder]
    /\ Len(tableOrder) = 2

\* Every column and every resource that no live view holds is unborrowed.
Unheld ==
    /\ \A a \in DOMAIN archetypes : \A k \in 1..Len(archetypes[a].columns) :
          ( /\ ColumnHolders(a, archetypes[a].columns[k].ty, "excl") = {}
            /\ ColumnHolders(a, archetypes[a].columns[k].ty, "shared") = {} )
          => archetypes[a].columns[k].borrow = 0
    /\ \A T \in DOMAIN resources :
          (ResourceHolders(T, "excl") = {} /\ ResourceHolders(T, "shared") = {})
          => resources[T].borrow = 0

\* C28, a step: storage whose views have all been dropped is unborrowed; an
\* exclusive query or get_mut made when no view of its storage is alive
\* does not panic; when tick() returns no view is alive and nothing is
\* borrowed; and the body of clear_mouse_delta, which takes and drops an
\* exclusive guard, fails on no tick of a world that holds a Mouse.
C28_ReleaseStep ==
    /\ Unheld'
    /\ ( /\ ExclRequest(last'.op)
         /\ HoldersOf(StorageOf(last'.op), last'.ty) = {} )
       => /\ last'.res \in {"view", "guard", "absent"}
          /\ status' = "running"
    /\ (stack # <<>> /\ stack' = <<>>) =>
          /\ views' = <<>>
          /\ \A T \in DOMAIN resources' : resources'[T].borrow = 0
          /\ \A a \in DOMAIN archetypes' : \A k \in 1..Len(archetypes'[a].columns) :
                archetypes'[a].columns[k].borrow = 0
    /\ (stack # <<>> /\ "Mouse" \in DOMAIN resources) => status' = "running"

C29_DistinctStorageIndependent ==
    /\ ( /\ SharedRequest(last.op) \/ ExclRequest(last.op)
         /\ \A i \in 1..Len(views) :
               views[i].on # StorageOf(last.op) \/ views[i].ty # last.ty )
       => /\ last.res \in {"view", "guard", "absent"}
          /\ status = "running"
    /\ status = "panicked" =>
          /\ SharedRequest(last.op) \/ ExclRequest(last.op)
          /\ HoldersOf(StorageOf(last.op), last.ty) # {}

\* An exclusive query over f32 returned A's column while an exclusive query
\* over i32 holds the other column of A.
C29_Witness ==
    /\ Len(views) = 2
    /\ views[1].kind = "excl" /\ views[1].on = "column" /\ views[1].ty = "i32"
    /\ InSeq("A", views[1].tabs)
    /\ views[2] = [kind |-> "excl", on |-> "column", ty |-> "f32", tabs |-> <<"A">>]
    /\ last.op = "query_mut" /\ last.ty = "f32" /\ last.res = "view"
    /\ Len(last.val) = 2

\* seq with its i-th entry replaced by v.
Replaced(seq, i, v) == [j \in 1..Len(seq) |-> IF j = i THEN v ELSE seq[j]]

\* What query::<&T>() would yield in the state after the step.
SingleResultAfter(T) ==
    Flatten([n \in 1..Len(Matching(archetypes', T)) |->
                ColumnSlice(archetypes'[Matching(archetypes', T)[n]], T)])

\* C30, a step: assigning v to the i-th item of an exclusive query over T
\* makes what a query over T yields differ at position i only, where it is
\* v, and leaves every other column, every row count and every resource as
\* they were; dropping a view changes nothing a query yields; and a shared
\* query yields what is stored then.
C30_WriteStep ==
    /\ last'.op = "write_item" =>
          /\ status' = "running"
          /\ SingleResultAfter(last'.ty) = Replaced(last'.old, last'.pos, last'.val[1])
          /\ SingleResult(last'.ty) = last'.old
          /\ \A U \in ComponentTypes \ {last'.ty} : SingleResultAfter(U) = SingleResult(U)
          /\ \A a \in DOMAIN archetypes :
                /\ TableLen(archetypes'[a]) = TableLen(archetypes[a])
                /\ \A k \in 1..Len(archetypes[a].columns) :
                      archetypes[a].columns[k].ty # last'.ty =>
                          archetypes'[a].columns[k] = archetypes[a].columns[k]
          /\ UNCHANGED <<resources, tableOrder, views>>
    /\ last'.op = "drop" =>
          \A T \in ComponentTypes : SingleResultAfter(T) = SingleResult(T)
    /\ (last'.op = "query" /\ last'.res = "view") =>
          last'.val = SingleResult(last'.ty)

\* C30: a write through an exclusive query changes only the written entry:
\* after the view is dropped a shared query yields the new value at the
\* written position and the old values elsewhere, and the other columns,
\* the row counts and the resources are unchanged.
C30_WriteChangesOneEntry == [][C30_WriteStep]_vars

\* A call of System::event made by a submit that a system's body called.
NestedSubmit(e) == e.call = "submit" /\ e.depth > 1

\* The latest call of System::tick logged before entry j.
TickBefore(j) ==
    log[CHOOSE t \in 1..(j - 1) :
            /\ log[t].call = "tick"
            /\ \A u \in (t + 1)..(j - 1) : log[u].call # "tick"]

\* C26: system bodies never interleave. In the calls a tick() makes, a
\* system's tick follows either the tick of the system before it or, when
\* that one is poll_events, the last call of a submit made inside it; the
\* calls of such a submit come right after the poll_events call that made
\* it, one per system in registration order with the same event, and are
\* through before the next tick call; and while a body is still running
\* (a spawn, poll_events, a submit inside it) it is the last one called.
C26_NoInterleaving ==
    /\ \A j \in 1..Len(log) :
          /\ log[j].call = "tick" => log[j].depth = 1
          /\ (log[1].call = "tick" /\ log[j].call = "submit") =>
                /\ log[j].depth = 3
                /\ j > 1
                /\ IF log[j].pos = 1
                   THEN \/ log[j - 1].call = "tick" /\ log[j - 1].body = "poll_events"
                        \/ NestedSubmit(log[j - 1]) /\ log[j - 1].pos = Len(systems)
                   ELSE /\ NestedSubmit(log[j - 1])
                        /\ log[j - 1].pos = log[j].pos - 1
                        /\ log[j - 1].ev = log[j].ev
                /\ TickBefore(j).body = "poll_events"
          /\ (j > 1 /\ log[1].call = "tick" /\ log[j].call = "tick") =>
                /\ TickBefore(j).pos = log[j].pos - 1
                /\ \/ log[j - 1].call = "tick"
                   \/ NestedSubmit(log[j - 1]) /\ log[j - 1].pos = Len(systems)
    /\ (adding # NoAdd /\ stack # <<>>) =>
          log # <<>> /\ log[Len(log)].body = "spawn_b"
    /\ (stack # <<>> /\ Top.kind = "poll") =>
          /\ Len(stack) = 2 /\ stack[2].kind = "tick"
          /\ log # <<>>
          /\ \/ /\ log[Len(log)].call = "tick" /\ log[Len(log)].body = "poll_events"
                /\ log[Len(log)].pos = stack[2].i - 1
             \/ NestedSubmit(log[Len(log)]) /\ log[Len(log)].pos = Len(systems)
    /\ (Len(stack) > 1 /\ Top.kind = "submit") =>
          /\ Len(stack) = 3 /\ stack[2].kind = "poll" /\ stack[3].kind = "tick"
          /\ TickBefore(Len(log) + 1).body = "poll_events"
          /\ TickBefore(Len(log) + 1).pos = stack[3].i - 1
          /\ status = "running" =>
                Top.i \in IF NestedSubmit(log[Len(log)]) /\ log[Len(log)].pos < Len(systems)
                          THEN {log[Len(log)].pos + 1}
                          ELSE IF log[Len(log)].call = "tick" THEN {1}
                          ELSE {1, Len(systems) + 1}

\* A tick of <<poll_events, the stop Handler>> has returned: poll_events
\* submitted Stop, both systems handled it inside poll_events' body, and
\* only then was the Handler's (empty) tick called.
C26_Witness ==
    /\ Idle
    /\ systems = <<TickerSystem("poll_events"), HandlerSystem("handle_stop")>>
    /\ Len(log) = 4
    /\ log[1].call = "tick" /\ log[1].pos = 1 /\ log[1].body = "poll_events"
    /\ log[2].call = "submit" /\ log[2].pos = 1 /\ log[2].depth = 3 /\ log[2].ev = "Stop"
    /\ log[3].call = "submit" /\ log[3].pos = 2 /\ log[3].body = "handle_stop"
    /\ log[4].call = "tick" /\ log[4].pos = 2 /\ log[4].depth = 1
    /\ log[4].seen.state = Some("Stopped")

\* run() is past its first line.
InLoop == last.op \in {"run", "loop_check", "tick", "submit"}

\* C27, the state a step leads to: the first check of the loop does not
\* break, the loop breaks only after a Stop event was submitted, and once
\* the tick during which Stop was submitted has returned State reads
\* Stopped and every system was called in that tick.
C27_LoopState ==
    /\ (last.op = "loop_check" /\ ticks = 0) => last.res = "continue"
    /\ (last.op = "loop_check" /\ last.res = "break") =>
          /\ ticks >= 1
          /\ InSeq("Stop", submits)
          /\ last.val = Some("Stopped")
    /\ (last.op = "loop_check" /\ InSeq("Stop", submits)) => last.res = "break"
    /\ (InLoop /\ Idle /\ InSeq("Stop", submits)) =>
          /\ resources["State"].val = "Stopped"
          /\ Len(TickCalls) = Len(systems)
    /\ (InLoop /\ Idle /\ ~InSeq("Stop", submits)) =>
          resources["State"].val = "Running"

\* C27, a step: a tick starts only from a check that read Running, never
\* after a Stop event; and nothing follows the check that read Stopped.
C27_LoopStep ==
    /\ ticks' # ticks =>
          /\ last.op = "loop_check" /\ last.res = "continue"
          /\ resources["State"].val = "Running"
          /\ ~InSeq("Stop", submits)
    /\ ~(last.op = "loop_check" /\ last.res = "break")
    /\ C27_LoopState'

\* C27: in the run loop no tick starts once the check reads Stopped: the
\* tick during which Stop is submitted runs all its systems and is the last
\* one; without a Stop event the loop does not exit; and run() sets State
\* to Running first, so the first check passes although World::new()
\* attached Stopped.
C27_RunLoop == [][C27_LoopStep]_vars

\* The loop has exited after its second tick: poll_events submitted Stop
\* in it, the stop Handler ran inside, and clear_mouse_delta, registered
\* after poll_events, was still called and saw State as Stopped.
C27_Witness ==
    /\ last.op = "loop_check" /\ last.res = "break"
    /\ ticks = 2
    /\ systems = <<HandlerSystem("handle_stop"), TickerSystem("poll_events"),
                   TickerSystem("clear_mouse_delta")>>
    /\ submits = <<"Stop">>
    /\ Len(log) = 6
    /\ log[3].call = "submit" /\ log[3].body = "handle_stop"
    /\ log[6].call = "tick" /\ log[6].body = "clear_mouse_delta"
    /\ log[6].seen.state = Some("Stopped")

====
